---- MODULE Spec2Model ----
(***************************************************************************)
(* A model of bin/update.py of sp500-components-history: the               *)
(* reconciliation engine (_merge_effective_date, _merge_stocks,            *)
(* _get_date_removed, _backfill, _diff_lists, _create_components_history), *)
(* the point-in-time query list_components and the incremental driver      *)
(* _update_components_history_file with its two files, the ledger          *)
(* (components_history.csv) and the audit log (CHANGELOG.txt).             *)
(*                                                                         *)
(* Representation.  A calendar date is its proleptic ordinal (an integer   *)
(* >= 1).  An EffectiveDate is [d, circa]; Python's None is NoDate (d = 0).*)
(* A plain date (created_at) is an integer, 0 for None.  Strings (symbol,  *)
(* cik, name, sector) are positive integers ordered as the strings are,    *)
(* 0 for the empty string.                                                 *)
(***************************************************************************)
EXTENDS Integers, Sequences, FiniteSets, TLC

VARIABLES
    \* ---- the driver, _update_components_history_file ----
    pc,                       \* where the run is
    changelog_file,           \* CHANGELOG.txt: a sequence of lines
    components_history_file,  \* components_history.csv: a sequence of Stock
    components_history,       \* the run's in-memory ledger
    revisions,                \* the batch of revision ids the run is working through
    idx,                      \* how many of the batch are done
    changeset,                \* the Changeset of the snapshot in hand
    pages,                    \* the page's revisions, oldest first: id -> snapshot
    BACKFILLS,                \* the override table loaded from backfill.csv
    runs,                     \* how many runs have been started
    hist,                     \* history variable: what the runs did so far
    \* ---- a call of a pure function ----
    args,
    ret

vars == << pc, changelog_file, components_history_file, components_history,
           revisions, idx, changeset, pages, BACKFILLS, runs, hist, args, ret >>

-----------------------------------------------------------------------------
(* Dates *)

_DATE_MIN == 1

_DATE_MAX == 1095363

NoDate == [d |-> 0, circa |-> FALSE]

EffectiveDate(day, circa) == [d |-> day, circa |-> circa]

\* EffectiveDate.from_date(date, circa)
from_date(date, circa) == [d |-> date.d, circa |-> circa]

\* EffectiveDate.to_date()
to_date(date) == date.d

\* Python truthiness of "EffectiveDate | None": only None is false
IsDate(date) == date.d # 0

\* "a or b" on EffectiveDate | None
OrDate(a, b) == IF IsDate(a) THEN a ELSE b

\* "a or b" on str (and on "dt.date | None")
OrStr(a, b) == IF a # 0 THEN a ELSE b

-----------------------------------------------------------------------------
(* Stock *)

Stock(symbol, cik, name, sector, date_added, date_removed, created_at) ==
    [ symbol |-> symbol, cik |-> cik, name |-> name, sector |-> sector,
      date_added |-> date_added, date_removed |-> date_removed,
      created_at |-> created_at ]

\* EffectiveDate.__eq__ reached with None on one side: super().__eq__ gives
\* NotImplemented (truthy), then None.circa raises AttributeError
DateEqRaises(a, b) == IsDate(a) # IsDate(b)

\* Stock.__eq__ as tuple equality, left to right, stopping at the first
\* unequal item: "True", "False" or "AttributeError"
Stock__eq__(self, other) ==
    IF self.symbol # other.symbol THEN "False"
    ELSE IF self.cik # other.cik THEN "False"
    ELSE IF DateEqRaises(self.date_removed, other.date_removed) THEN "AttributeError"
    ELSE IF self.date_removed # other.date_removed THEN "False"
    ELSE IF DateEqRaises(self.date_added, other.date_added) THEN "AttributeError"
    ELSE IF self.date_added # other.date_added THEN "False"
    ELSE IF self.sector # other.sector THEN "False"
    ELSE IF self.name # other.name THEN "False"
    ELSE "True"

\* the order with the later removal first and the active record ahead of all
Stock__lt__descending(self, other) ==
    LET dr1 == IF IsDate(self.date_removed) THEN self.date_removed
               ELSE EffectiveDate(_DATE_MAX, FALSE)
        dr2 == IF IsDate(other.date_removed) THEN other.date_removed
               ELSE EffectiveDate(_DATE_MAX, FALSE)
        da1 == IF IsDate(self.date_added) THEN self.date_added
               ELSE EffectiveDate(_DATE_MIN, FALSE)
        da2 == IF IsDate(other.date_added) THEN other.date_added
               ELSE EffectiveDate(_DATE_MIN, FALSE)
    IN  IF self.symbol # other.symbol THEN self.symbol < other.symbol
        ELSE IF self.cik # other.cik THEN self.cik < other.cik
        ELSE IF dr1 # dr2 THEN dr1.d > dr2.d
        ELSE IF da1 # da2 THEN da1.d < da2.d
        ELSE IF self.sector # other.sector THEN self.sector < other.sector
        ELSE self.name < other.name

\* Stock.__lt__ as tuple comparison: the first item that is not == decides,
\* by <.  Two dates of the same day that differ in circa are not ==, and
\* neither is < the other.  (A date equal to a sentinel is not in the inputs.)
Stock__lt__(self, other) ==
    LET dr1 == IF IsDate(self.date_removed) THEN self.date_removed
               ELSE EffectiveDate(_DATE_MAX, FALSE)
        dr2 == IF IsDate(other.date_removed) THEN other.date_removed
               ELSE EffectiveDate(_DATE_MAX, FALSE)
        da1 == IF IsDate(self.date_added) THEN self.date_added
               ELSE EffectiveDate(_DATE_MIN, FALSE)
        da2 == IF IsDate(other.date_added) THEN other.date_added
               ELSE EffectiveDate(_DATE_MIN, FALSE)
    IN  IF self.symbol # other.symbol THEN self.symbol < other.symbol
        ELSE IF self.cik # other.cik THEN self.cik < other.cik
        ELSE IF dr1 # dr2 THEN dr1.d < dr2.d
        ELSE IF da1 # da2 THEN da1.d < da2.d
        ELSE IF self.sector # other.sector THEN self.sector < other.sector
        ELSE self.name < other.name

-----------------------------------------------------------------------------
(* Sequences *)

Reverse(s) == [i \in 1..Len(s) |-> s[Len(s) + 1 - i]]

Last(s) == s[Len(s)]

InsertAt(s, i, x) == SubSeq(s, 1, i - 1) \o <<x>> \o SubSeq(s, i, Len(s))

SeqToSet(s) == {s[i] : i \in 1..Len(s)}

Symbols(s) == [i \in 1..Len(s) |-> s[i].symbol]

\* list.sort() on a list this short: the leading run (reversed when strictly
\* descending), then binary insertion of the rest
RECURSIVE RunLength(_, _, _)
RunLength(s, n, descending) ==
    IF n >= Len(s) THEN n
    ELSE IF Stock__lt__(s[n + 1], s[n]) = descending
         THEN RunLength(s, n + 1, descending)
         ELSE n

RECURSIVE BinarySearch(_, _, _, _)
BinarySearch(s, pivot, l, r) ==
    IF l >= r THEN l
    ELSE LET p == l + ((r - l) \div 2)
         IN  IF Stock__lt__(pivot, s[p + 1])
             THEN BinarySearch(s, pivot, l, p)
             ELSE BinarySearch(s, pivot, p + 1, r)

RECURSIVE BinarySort(_, _)
BinarySort(s, start) ==
    IF start >= Len(s) THEN s
    ELSE LET pivot == s[start + 1]
             l == BinarySearch(s, pivot, 0, start)
             moved == InsertAt(SubSeq(s, 1, start), l + 1, pivot)
                        \o SubSeq(s, start + 2, Len(s))
         IN  BinarySort(moved, start + 1)

sort(s) ==
    IF Len(s) < 2 THEN s
    ELSE LET descending == Stock__lt__(s[2], s[1])
             n == RunLength(s, 2, descending)
             run == IF descending
                    THEN Reverse(SubSeq(s, 1, n)) \o SubSeq(s, n + 1, Len(s))
                    ELSE s
         IN  BinarySort(run, n)

-----------------------------------------------------------------------------
(* _merge_effective_date, _merge_stocks *)

\* the latest date taken without asking whether the old one is exact
_merge_effective_date_latest_wins(old_date, latest_date) ==
    IF ~latest_date.circa THEN latest_date
    ELSE IF latest_date.d - old_date.d < 30 THEN latest_date
    ELSE old_date

_merge_effective_date(old_date, latest_date) ==
    IF ~latest_date.circa THEN latest_date
    ELSE IF ~old_date.circa THEN old_date
    ELSE IF latest_date.d - old_date.d < 30 THEN latest_date
    ELSE old_date

_merge_stocks(old, latest) ==
    [ symbol |-> OrStr(latest.symbol, old.symbol),
      cik    |-> OrStr(latest.cik, old.cik),
      name   |-> OrStr(latest.name, old.name),
      sector |-> OrStr(latest.sector, old.sector),
      date_added |->
          IF IsDate(old.date_added) /\ IsDate(latest.date_added)
          THEN _merge_effective_date(old.date_added, latest.date_added)
          ELSE OrDate(latest.date_added, old.date_added),
      date_removed |->
          IF IsDate(old.date_removed) /\ IsDate(latest.date_removed)
          THEN _merge_effective_date(old.date_removed, latest.date_removed)
          ELSE OrDate(latest.date_removed, old.date_removed),
      created_at |->
          IF old.created_at # 0 /\ latest.created_at # 0
          THEN old.created_at
          ELSE OrStr(latest.created_at, old.created_at) ]

-----------------------------------------------------------------------------
(* The removal-event index: _RemovalHistory, _table_to_removal_history *)

\* _RemovalHistory.__lt__ (reverse chronological)
RemovalHistory__lt__(self, other) ==
    (IF IsDate(self.date_removed) THEN self.date_removed.d ELSE _DATE_MAX)
        > (IF IsDate(other.date_removed) THEN other.date_removed.d ELSE _DATE_MAX)

\* heapq._siftdown(heap, 0, pos), positions counted from 0
RECURSIVE _siftdown(_, _, _)
_siftdown(heap, newitem, pos) ==
    IF pos > 0
    THEN LET parentpos == (pos - 1) \div 2
             parent == heap[parentpos + 1]
         IN  IF RemovalHistory__lt__(newitem, parent)
             THEN _siftdown([heap EXCEPT ![pos + 1] = parent], newitem, parentpos)
             ELSE [heap EXCEPT ![pos + 1] = newitem]
    ELSE [heap EXCEPT ![pos + 1] = newitem]

heappush(heap, item) == _siftdown(Append(heap, item), item, Len(heap))

\* dict.get(key, []) on a lookup kept as a function
Get(lookup, key) == IF key \in DOMAIN lookup THEN lookup[key] ELSE <<>>

Put(lookup, key, value) ==
    [k \in DOMAIN lookup \cup {key} |-> IF k = key THEN value ELSE lookup[k]]

EmptyLookup == [k \in {} |-> <<>>]

\* _table_to_removal_history on the data rows of the removal table: each row
\* an entry [symbol, date_removed] as the field converters left it
RECURSIVE _table_to_removal_history(_, _)
_table_to_removal_history(rows, history_lookup) ==
    IF rows = <<>> THEN history_lookup
    ELSE LET entry == Head(rows)
             complete == entry.symbol # 0 /\ IsDate(entry.date_removed)
         IN  _table_to_removal_history(Tail(rows),
                 IF complete
                 THEN Put(history_lookup, entry.symbol,
                          heappush(Get(history_lookup, entry.symbol), entry))
                 ELSE history_lookup)

-----------------------------------------------------------------------------
(* Removal Resolver: _find_closest_removal_date, _get_date_removed *)

Abs(x) == IF x < 0 THEN -x ELSE x

\* acc = [closest_date, diff_min]; diff_min = -1 stands for float('inf')
RECURSIVE FindClosestLoop(_, _, _)
FindClosestLoop(removals, date_ref, acc) ==
    IF removals = <<>> THEN acc.closest_date
    ELSE LET history == Head(removals)
             diff == Abs(history.date_removed.d - date_ref.d)
         IN  FindClosestLoop(Tail(removals), date_ref,
                 IF ~IsDate(history.date_removed) THEN acc
                 ELSE IF acc.diff_min = -1 \/ diff < acc.diff_min
                      THEN [closest_date |-> history.date_removed, diff_min |-> diff]
                      ELSE acc)

_find_closest_removal_date(removals, date_ref) ==
    FindClosestLoop(removals, date_ref, [closest_date |-> NoDate, diff_min |-> -1])

_get_date_removed(stock, removals, date_stand_in) ==
    LET history == Get(removals, stock.symbol)
        closest_date_removed ==
            IF history # <<>>
            THEN _find_closest_removal_date(history, date_stand_in)
            ELSE NoDate
    IN  IF IsDate(closest_date_removed)
           /\ IsDate(stock.date_added)
           /\ closest_date_removed.d >= stock.date_added.d
        THEN closest_date_removed
        ELSE IF IsDate(stock.date_added) /\ stock.date_added.d > date_stand_in.d
             THEN from_date(stock.date_added, TRUE)
             ELSE date_stand_in

-----------------------------------------------------------------------------
(* Override Applier: _backfill over the table BACKFILLS *)

\* _BACKFILLS.get(stock.symbol, []): the table's entries of the symbol, in
\* the table's (sorted) order
BackfillEntries(symbol) ==
    SelectSeq(BACKFILLS, LAMBDA b : b.symbol = symbol)

RECURSIVE BackfillLoop(_, _, _)
BackfillLoop(entries, stock, omit_removal) ==
    IF entries = <<>> THEN stock
    ELSE LET b == Head(entries)
         IN  IF IsDate(b.date_added)
                /\ IsDate(b.date_removed)
                /\ IsDate(stock.date_added)
                /\ b.date_added.d <= stock.date_added.d
                /\ stock.date_added.d < b.date_removed.d
             THEN LET merged == _merge_stocks(stock, b)
                  IN  IF omit_removal
                      THEN [merged EXCEPT !.date_removed = NoDate]
                      ELSE merged
             ELSE BackfillLoop(Tail(entries), stock, omit_removal)

\* _backfill that ignores omit_removal
_backfill_keeps_removal(stock, omit_removal) ==
    BackfillLoop(BackfillEntries(stock.symbol), stock, FALSE)

_backfill(stock, omit_removal) ==
    BackfillLoop(BackfillEntries(stock.symbol), stock, omit_removal)

-----------------------------------------------------------------------------
(* Snapshot Differ: _diff_lists *)

\* _find_duplicates(items) is non-empty
HasDuplicates(items) ==
    \E i, j \in 1..Len(items) : i < j /\ items[i] = items[j]

\* lines 877-892: the loop over reversed(components_history), i counting
\* down; acc = [old, inactive, inactive_updated, seen]
RECURSIVE PartitionLoop(_, _, _, _)
\* every inactive record re-dated, the symbol's older records too
PartitionLoop_every(history, removals, i, acc) ==
    IF i = 0 THEN acc
    ELSE LET existing == history[i]
             updated_date_removed ==
                 _get_date_removed(existing, removals, existing.date_removed)
             next ==
                 IF ~IsDate(existing.date_removed)
                 THEN [acc EXCEPT !.old = Append(@, existing)]
                 ELSE IF IsDate(updated_date_removed)
                         /\ existing.date_removed # updated_date_removed
                      THEN [acc EXCEPT !.inactive_updated =
                               Append(@, [existing EXCEPT
                                   !.date_removed = updated_date_removed])]
                      ELSE [acc EXCEPT !.inactive = Append(@, existing)]
         IN  PartitionLoop(history, removals, i - 1,
                 [next EXCEPT !.seen = @ \cup {existing.symbol}])

PartitionLoop(history, removals, i, acc) ==
    IF i = 0 THEN acc
    ELSE LET existing == history[i]
             updated_date_removed ==
                 _get_date_removed(existing, removals, existing.date_removed)
             next ==
                 IF ~IsDate(existing.date_removed)
                 THEN [acc EXCEPT !.old = Append(@, existing)]
                 ELSE IF existing.symbol \notin acc.seen
                         /\ IsDate(updated_date_removed)
                         /\ existing.date_removed # updated_date_removed
                      THEN [acc EXCEPT !.inactive_updated =
                               Append(@, [existing EXCEPT
                                   !.date_removed = updated_date_removed])]
                      ELSE [acc EXCEPT !.inactive = Append(@, existing)]
         IN  PartitionLoop(history, removals, i - 1,
                 [next EXCEPT !.seen = @ \cup {existing.symbol}])

\* lines 921-922 and 944-945: a removal
Removal(stock_old, removals, date_stand_in) ==
    _backfill([stock_old EXCEPT !.date_removed =
                  _get_date_removed(stock_old, removals, date_stand_in)], FALSE)

\* lines 927-928 and 951-952: an addition
Addition(stock_latest, date, date_stand_in) ==
    _backfill([stock_latest EXCEPT
                  !.date_added = OrDate(stock_latest.date_added, date_stand_in),
                  !.created_at = date], TRUE)

\* lines 915-953: the two-cursor scan, cursors counted from 0;
\* acc = [added, removed, updated, unchanged, raised]
RECURSIVE DiffLoop(_, _, _, _, _, _, _)
DiffLoop(old, latest, idx_old, idx_latest, acc, revision, removals) ==
    LET date == revision.date
        date_stand_in == EffectiveDate(date, TRUE)
    IN
    IF idx_old < Len(old) /\ idx_latest < Len(latest)
    THEN LET stock_old == old[idx_old + 1]
             stock_latest == latest[idx_latest + 1]
             stock_merged == _merge_stocks(stock_old, stock_latest)
             eq == Stock__eq__(stock_merged, stock_old)
         IN  IF stock_old.symbol < stock_latest.symbol
             THEN DiffLoop(old, latest, idx_old + 1, idx_latest,
                      [acc EXCEPT !.removed =
                          Append(@, Removal(stock_old, removals, date_stand_in))],
                      revision, removals)
             ELSE IF stock_latest.symbol < stock_old.symbol
             THEN DiffLoop(old, latest, idx_old, idx_latest + 1,
                      [acc EXCEPT !.added =
                          Append(@, Addition(stock_latest, date, date_stand_in))],
                      revision, removals)
             ELSE IF eq = "AttributeError"
             THEN [acc EXCEPT !.raised = "AttributeError"]
             ELSE DiffLoop(old, latest, idx_old + 1, idx_latest + 1,
                      IF eq = "False"
                      THEN [acc EXCEPT !.updated = Append(@, stock_merged)]
                      ELSE [acc EXCEPT !.unchanged = Append(@, stock_old)],
                      revision, removals)
    ELSE IF idx_old < Len(old)
    THEN DiffLoop(old, latest, idx_old + 1, idx_latest,
             [acc EXCEPT !.removed =
                 Append(@, Removal(old[idx_old + 1], removals, date_stand_in))],
             revision, removals)
    ELSE IF idx_latest < Len(latest)
    THEN DiffLoop(old, latest, idx_old, idx_latest + 1,
             [acc EXCEPT !.added =
                 Append(@, Addition(latest[idx_latest + 1], date, date_stand_in))],
             revision, removals)
    ELSE acc

\* A Changeset, with "raised" naming the exception that ended the call
\* ("" when it returned)
Changeset(revision, raised, added, removed, updated, unchanged, inactive, inactive_updated) ==
    [ revision |-> revision, raised |-> raised,
      added |-> added, removed |-> removed, updated |-> updated,
      unchanged |-> unchanged, inactive |-> inactive,
      inactive_updated |-> inactive_updated ]

Raised(revision, exception) ==
    Changeset(revision, exception, <<>>, <<>>, <<>>, <<>>, <<>>, <<>>)

NoChangeset == Raised([id |-> 0, date |-> 0], "")

\* the active records left in the order the backwards walk met them
_diff_lists_unreversed(history, latest, revision, removals) ==
    LET part == PartitionLoop(history, removals, Len(history),
                    [old |-> <<>>, inactive |-> <<>>,
                     inactive_updated |-> <<>>, seen |-> {}])
        old == part.old
        scan == DiffLoop(old, latest, 0, 0,
                    [added |-> <<>>, removed |-> <<>>, updated |-> <<>>,
                     unchanged |-> <<>>, raised |-> ""],
                    revision, removals)
    IN  IF HasDuplicates(Symbols(old))
        THEN Raised(revision, "Duplicate symbol(s) in old stocks list")
        ELSE IF HasDuplicates(Symbols(latest))
        THEN Raised(revision, "Duplicate symbol(s) in latest stocks list")
        ELSE IF scan.raised # ""
        THEN Raised(revision, scan.raised)
        ELSE Changeset(revision, "", scan.added, scan.removed, scan.updated,
                       scan.unchanged, Reverse(part.inactive),
                       Reverse(part.inactive_updated))

_diff_lists(history, latest, revision, removals) ==
    LET part == PartitionLoop(history, removals, Len(history),
                    [old |-> <<>>, inactive |-> <<>>,
                     inactive_updated |-> <<>>, seen |-> {}])
        old == Reverse(part.old)
        inactive == Reverse(part.inactive)
        inactive_updated == Reverse(part.inactive_updated)
        scan == DiffLoop(old, latest, 0, 0,
                    [added |-> <<>>, removed |-> <<>>, updated |-> <<>>,
                     unchanged |-> <<>>, raised |-> ""],
                    revision, removals)
    IN  IF HasDuplicates(Symbols(old))
        THEN Raised(revision, "Duplicate symbol(s) in old stocks list")
        ELSE IF HasDuplicates(Symbols(latest))
        THEN Raised(revision, "Duplicate symbol(s) in latest stocks list")
        ELSE IF scan.raised # ""
        THEN Raised(revision, scan.raised)
        ELSE Changeset(revision, "", scan.added, scan.removed, scan.updated,
                       scan.unchanged, inactive, inactive_updated)

-----------------------------------------------------------------------------
(* History Rebuilder: _create_components_history *)

\* added_map.get(symbol): the last record of the symbol in added, or None
AddedMapGet(added, symbol) ==
    LET at == {i \in 1..Len(added) : added[i].symbol = symbol}
    IN  IF at = {} THEN [symbol |-> 0]
        ELSE added[CHOOSE i \in at : \A j \in at : j <= i]

\* lines 978-992; acc = [merged_components_prev, added_exclusion]
RECURSIVE CoalesceLoop(_, _, _)
\* an addition folded into every inactive record it is near to
CoalesceLoop_every(prev, added_list, acc) ==
    IF prev = <<>> THEN acc
    ELSE LET existing == Head(prev)
             added == AddedMapGet(added_list, existing.symbol)
         IN  CoalesceLoop(Tail(prev), added_list,
                 IF added.symbol # 0
                    /\ IsDate(existing.date_removed)
                    /\ IsDate(added.date_added)
                    /\ added.date_added.d - existing.date_removed.d < 30
                 THEN [ merged_components_prev |->
                            Append(acc.merged_components_prev,
                                   [_merge_stocks(existing, added) EXCEPT
                                       !.date_removed = NoDate]),
                        added_exclusion |->
                            acc.added_exclusion \cup {added.symbol} ]
                 ELSE [acc EXCEPT !.merged_components_prev = Append(@, existing)])

CoalesceLoop(prev, added_list, acc) ==
    IF prev = <<>> THEN acc
    ELSE LET existing == Head(prev)
             added == AddedMapGet(added_list, existing.symbol)
         IN  CoalesceLoop(Tail(prev), added_list,
                 IF added.symbol # 0
                    /\ added.symbol \notin acc.added_exclusion
                    /\ IsDate(existing.date_removed)
                    /\ IsDate(added.date_added)
                    /\ added.date_added.d - existing.date_removed.d < 30
                 THEN [ merged_components_prev |->
                            Append(acc.merged_components_prev,
                                   [_merge_stocks(existing, added) EXCEPT
                                       !.date_removed = NoDate]),
                        added_exclusion |->
                            acc.added_exclusion \cup {added.symbol} ]
                 ELSE [acc EXCEPT !.merged_components_prev = Append(@, existing)])

\* lines 997-1001: the removed records that are kept
KeepRemoved(s, revision) ==
    /\ IsDate(s.date_removed) /\ IsDate(s.date_added)
    /\ s.date_removed.d - s.date_added.d > 14
    /\ s.created_at # 0
    /\ revision.date - s.created_at > 2

\* a rebuild that keeps the addition beside the record it was folded into
_create_components_history_keeps_added(cs) ==
    LET merged == CoalesceLoop(Reverse(sort(cs.inactive \o cs.inactive_updated)),
                      cs.added,
                      [merged_components_prev |-> <<>>, added_exclusion |-> {}])
        removed_new == SelectSeq(cs.removed,
                           LAMBDA s : KeepRemoved(s, cs.revision))
    IN  sort(cs.added \o removed_new \o cs.updated \o cs.unchanged
                \o merged.merged_components_prev)

_create_components_history(cs) ==
    LET merged == CoalesceLoop(Reverse(sort(cs.inactive \o cs.inactive_updated)),
                      cs.added,
                      [merged_components_prev |-> <<>>, added_exclusion |-> {}])
        added_new == SelectSeq(cs.added,
                         LAMBDA s : s.symbol \notin merged.added_exclusion)
        removed_new == SelectSeq(cs.removed,
                           LAMBDA s : KeepRemoved(s, cs.revision))
    IN  sort(added_new \o removed_new \o cs.updated \o cs.unchanged
                \o merged.merged_components_prev)

-----------------------------------------------------------------------------
(* Changeset.summary, list_components *)

\* sorted() on a list of symbols (a symbol listed twice stays twice)
RECURSIVE SortedSymbols(_)
SortedSymbols(symbols) ==
    IF symbols = <<>> THEN <<>>
    ELSE LET rest == SortedSymbols(Tail(symbols))
             x == Head(symbols)
         IN  SelectSeq(rest, LAMBDA y : y < x) \o <<x>>
                \o SelectSeq(rest, LAMBDA y : y >= x)

\* A line of the audit log: "<date> (<id>) +A,B -C *D", or
\* "<date> (<id>) ERROR: <text>"; kind "" is the empty string
Line(kind, revision, added, removed, updated, text) ==
    [ kind |-> kind, revision |-> revision, added |-> added,
      removed |-> removed, updated |-> updated, text |-> text ]

EmptyLine == Line("", [id |-> 0, date |-> 0], <<>>, <<>>, <<>>, "")

summary(cs) ==
    LET added == Symbols(cs.added)
        removed == Symbols(cs.removed)
        updated == Symbols(cs.updated \o cs.inactive_updated)
    IN  IF added # <<>> \/ removed # <<>> \/ updated # <<>>
        THEN Line("summary", cs.revision, added, removed,
                  SortedSymbols(updated), "")
        ELSE EmptyLine

\* str(UpdateError)
ErrorLine(revision, text) == Line("ERROR", revision, <<>>, <<>>, <<>>, text)

\* a record left out on the day the system first saw it
list_components_after_created(history, date) ==
    IF date = 0
    THEN SelectSeq(history, LAMBDA c : ~IsDate(c.date_removed))
    ELSE SelectSeq(history, LAMBDA c :
             /\ (IF IsDate(c.date_added) THEN to_date(c.date_added) ELSE _DATE_MIN)
                    <= date
             /\ date < (IF IsDate(c.date_removed) THEN to_date(c.date_removed)
                        ELSE _DATE_MAX)
             /\ date > (IF c.created_at # 0 THEN c.created_at ELSE _DATE_MIN))

\* date = 0 is None
list_components(history, date) ==
    IF date = 0
    THEN SelectSeq(history, LAMBDA c : ~IsDate(c.date_removed))
    ELSE SelectSeq(history, LAMBDA c :
             /\ (IF IsDate(c.date_added) THEN to_date(c.date_added) ELSE _DATE_MIN)
                    <= date
             /\ date < (IF IsDate(c.date_removed) THEN to_date(c.date_removed)
                        ELSE _DATE_MAX)
             /\ date >= (IF c.created_at # 0 THEN c.created_at ELSE _DATE_MIN))

-----------------------------------------------------------------------------
(* A snapshot: one revision of the page, as _fetch_tables and the field     *)
(* converters hand it on.  error: the UpdateError _fetch_tables raises, or  *)
(* ""; headings: the required headings were found; rows: the components     *)
(* table's rows, in the table's order; removals: the removal table's rows.  *)

Page(date, error, headings, rows, removals) ==
    [ date |-> date, error |-> error, headings |-> headings,
      rows |-> rows, removals |-> removals ]

\* _csv_to_stocks: [raised, stocks]
_csv_to_stocks(headings, rows) ==
    IF ~headings
    THEN [raised |-> "Symbol, name or sector headings missing", stocks |-> <<>>]
    ELSE IF \E i \in 1..Len(rows) : rows[i].symbol = 0
    THEN [raised |-> "Found rows without symbols", stocks |-> <<>>]
    ELSE [raised |-> "", stocks |-> sort(rows)]

\* read_components_history: the ledger file through _csv_to_stocks
read_components_history(file) == _csv_to_stocks(TRUE, file).stocks

\* _update_components_history on revision id of the page
_update_components_history(history, page, id) ==
    LET revision == [id |-> id, date |-> page.date]
        components_latest == _csv_to_stocks(page.headings, page.rows)
        removals == _table_to_removal_history(page.removals, EmptyLookup)
    IN  IF page.error # "" THEN Raised(revision, page.error)
        ELSE IF components_latest.raised # ""
        THEN Raised(revision, components_latest.raised)
        ELSE _diff_lists(history, components_latest.stocks, revision, removals)

IsUpdateError(raised) == raised \notin {"", "AttributeError"}

-----------------------------------------------------------------------------
(* Inputs: the rows a snapshot may hold, the snapshots, the override tables *)

\* symbols "A" < "B"
A0 == Stock(1, 1, 1, 1, NoDate, NoDate, 0)

B0 == Stock(2, 2, 1, 2, NoDate, NoDate, 0)

\* A with a sourced (exact) date_added, long before the page's first revision
A_sourced == [A0 EXCEPT !.date_added = EffectiveDate(50, FALSE)]

\* A under another name and cik
A_changed == [A0 EXCEPT !.name = 2, !.cik = 2]

\* A in a table that has a "removed" column
A_removed == [A0 EXCEPT !.date_removed = EffectiveDate(60, FALSE)]

\* a row whose symbol _to_symbol rejected
NoSymbol == [A0 EXCEPT !.symbol = 0]

\* days between a revision and the next (two revisions may fall on one day)
Deltas == {1, 20, 40}

\* the removal table of a page of the given date: A left three days ago
RemovedA(date) == << [symbol |-> 1, date_removed |-> EffectiveDate(date - 3, FALSE)] >>

\* the pages the driver is run on
DriverSnapshots(last) ==
    { Page(last + delta, "", TRUE, rows, <<>>) :
          delta \in {1, 40},
          rows \in { <<A0>>, <<B0, A0>>, <<>>, <<A0, A0>> } }
    \cup { Page(last + 1, "No tables found", TRUE, <<>>, <<>>) }

\* override tables (backfill.csv), each in _csv_to_stocks' order
BackfillTables ==
    { <<>>,
      << Stock(1, 1, 2, 1, EffectiveDate(50, FALSE), EffectiveDate(400, FALSE), 0) >> }

-----------------------------------------------------------------------------
(* The driver: _update_components_history_file, one run after another over  *)
(* the same data folder                                                     *)

MaxRevisions == 2

MaxRuns == 2

_FIRST_REVISION_WITH_SYMBOLS == 1

\* read_last_line
read_last_line(file) == IF file = <<>> THEN EmptyLine ELSE Last(file)

\* _last_processed_revision_id: 0 is ''
_last_processed_revision_id(file) == read_last_line(file).revision.id

\* _fetch_revision_ids: the revisions newer than the given one, oldest first
_fetch_revision_ids(newer_than) ==
    [i \in 1..(Len(pages) - newer_than) |-> newer_than + i]

Init ==
    /\ pc = "idle"
    /\ changelog_file = <<>>
    /\ components_history_file = <<>>
    /\ components_history = <<>>
    /\ revisions = <<>>
    /\ idx = 0
    /\ changeset = NoChangeset
    /\ BACKFILLS \in BackfillTables
    /\ \E first \in DriverSnapshots(100) : pages = <<first>>
    /\ runs = 0
    /\ hist = [ folded |-> <<>>, finished |-> FALSE, pages_at_finish |-> 0,
                replay |-> FALSE, start_file |-> <<>>, start_changelog |-> <<>> ]
    /\ args = <<>>
    /\ ret = <<>>

\* a new revision of the page appears (between runs)
Publish ==
    /\ pc = "idle"
    /\ Len(pages) < MaxRevisions
    /\ \E page \in DriverSnapshots(Last(pages).date) : pages' = Append(pages, page)
    /\ UNCHANGED << pc, changelog_file, components_history_file, components_history,
                    revisions, idx, changeset, BACKFILLS, runs, hist, args, ret >>

\* a run that starts over from the first revision
StartRun_from_first ==
    /\ pc = "idle"
    /\ runs < MaxRuns
    /\ runs' = runs + 1
    /\ revisions' = << _FIRST_REVISION_WITH_SYMBOLS >>
    /\ idx' = 0
    /\ components_history' = read_components_history(components_history_file)
    /\ pc' = "fetch"
    /\ hist' = [hist EXCEPT
           !.replay = hist.finished /\ hist.pages_at_finish = Len(pages),
           !.finished = FALSE,
           !.start_file = components_history_file,
           !.start_changelog = changelog_file]
    /\ UNCHANGED << changelog_file, components_history_file, changeset, pages,
                    BACKFILLS, args, ret >>

\* lines 1052-1055
StartRun ==
    /\ pc = "idle"
    /\ runs < MaxRuns
    /\ runs' = runs + 1
    /\ revisions' = << OrStr(_last_processed_revision_id(changelog_file),
                             _FIRST_REVISION_WITH_SYMBOLS) >>
    /\ idx' = 0
    /\ components_history' = read_components_history(components_history_file)
    /\ pc' = "fetch"
    /\ hist' = [hist EXCEPT
           !.replay = hist.finished /\ hist.pages_at_finish = Len(pages),
           !.finished = FALSE,
           !.start_file = components_history_file,
           !.start_changelog = changelog_file]
    /\ UNCHANGED << changelog_file, components_history_file, changeset, pages,
                    BACKFILLS, args, ret >>

\* lines 1057-1060: the next revision of the batch, fetched and diffed
Reconcile ==
    /\ pc = "fetch"
    /\ idx < Len(revisions)
    /\ changeset' = _update_components_history(components_history,
                        pages[revisions[idx + 1]], revisions[idx + 1])
    /\ pc' = "diffed"
    /\ UNCHANGED << changelog_file, components_history_file, components_history,
                    revisions, idx, pages, BACKFILLS, runs, hist, args, ret >>

\* an UpdateError that ends the run
HandleUpdateError_raises ==
    /\ pc = "diffed"
    /\ IsUpdateError(changeset.raised)
    /\ LET message == ErrorLine(changeset.revision, changeset.raised)
       IN  changelog_file' = IF read_last_line(changelog_file) # message
                             THEN Append(changelog_file, message)
                             ELSE changelog_file
    /\ pc' = "idle"
    /\ components_history' = <<>>
    /\ revisions' = <<>>
    /\ idx' = 0
    /\ UNCHANGED << components_history_file, changeset, pages, BACKFILLS, runs,
                    hist, args, ret >>

\* lines 1061-1066: except UpdateError
HandleUpdateError ==
    /\ pc = "diffed"
    /\ IsUpdateError(changeset.raised)
    /\ LET message == ErrorLine(changeset.revision, changeset.raised)
       IN  changelog_file' = IF read_last_line(changelog_file) # message
                             THEN Append(changelog_file, message)
                             ELSE changelog_file
    /\ idx' = idx + 1
    /\ pc' = "fetch"
    /\ UNCHANGED << components_history_file, components_history, revisions,
                    changeset, pages, BACKFILLS, runs, hist, args, ret >>

\* the ledger rebuilt and written whenever some list of the changeset is
\* non-empty
Summarise_any_list ==
    /\ pc = "diffed"
    /\ changeset.raised = ""
    /\ IF \/ summary(changeset) # EmptyLine
          \/ changeset.unchanged # <<>>
          \/ changeset.inactive # <<>>
       THEN /\ components_history' = _create_components_history(changeset)
            /\ pc' = "append"
            /\ idx' = idx
       ELSE /\ components_history' = components_history
            /\ pc' = "fetch"
            /\ idx' = idx + 1
    /\ UNCHANGED << changelog_file, components_history_file, revisions, changeset,
                    pages, BACKFILLS, runs, hist, args, ret >>

\* lines 1067-1069: the summary, and the rebuilt ledger when it is not empty
Summarise ==
    /\ pc = "diffed"
    /\ changeset.raised = ""
    /\ IF summary(changeset) # EmptyLine
       THEN /\ components_history' = _create_components_history(changeset)
            /\ pc' = "append"
            /\ idx' = idx
       ELSE /\ components_history' = components_history
            /\ pc' = "fetch"
            /\ idx' = idx + 1
    /\ UNCHANGED << changelog_file, components_history_file, revisions, changeset,
                    pages, BACKFILLS, runs, hist, args, ret >>

\* line 1070
AppendLog ==
    /\ pc = "append"
    /\ changelog_file' = Append(changelog_file, summary(changeset))
    /\ pc' = "write"
    /\ hist' = [hist EXCEPT !.folded = components_history]
    /\ UNCHANGED << components_history_file, components_history, revisions, idx,
                    changeset, pages, BACKFILLS, runs, args, ret >>

\* line 1071
WriteLedger ==
    /\ pc = "write"
    /\ components_history_file' = components_history
    /\ idx' = idx + 1
    /\ pc' = "fetch"
    /\ UNCHANGED << changelog_file, components_history, revisions, changeset,
                    pages, BACKFILLS, runs, hist, args, ret >>

\* lines 1077-1078 with newer revisions to go on with
NextBatch ==
    /\ pc = "fetch"
    /\ idx = Len(revisions)
    /\ _fetch_revision_ids(Last(revisions)) # <<>>
    /\ revisions' = _fetch_revision_ids(Last(revisions))
    /\ idx' = 0
    /\ UNCHANGED << pc, changelog_file, components_history_file, components_history,
                    changeset, pages, BACKFILLS, runs, hist, args, ret >>

\* lines 1056 and 1079: no newer revision, the run is complete
Complete ==
    /\ pc = "fetch"
    /\ idx = Len(revisions)
    /\ _fetch_revision_ids(Last(revisions)) = <<>>
    /\ pc' = "idle"
    /\ components_history' = <<>>
    /\ revisions' = <<>>
    /\ idx' = 0
    /\ changeset' = NoChangeset
    /\ hist' = [hist EXCEPT !.finished = TRUE, !.pages_at_finish = Len(pages)]
    /\ UNCHANGED << changelog_file, components_history_file, pages, BACKFILLS,
                    runs, args, ret >>

\* the run ends early: an exception other than UpdateError leaves the loop
\* (IOError from _fetch_page or a write, AttributeError from Stock.__eq__),
\* or the process is stopped.  The files stay as they are.
Abort ==
    /\ pc # "idle"
    /\ pc' = "idle"
    /\ components_history' = <<>>
    /\ revisions' = <<>>
    /\ idx' = 0
    /\ changeset' = NoChangeset
    /\ UNCHANGED << changelog_file, components_history_file, pages, BACKFILLS,
                    runs, hist, args, ret >>

Next ==
    \/ Publish
    \/ StartRun
    \/ Reconcile
    \/ HandleUpdateError
    \/ Summarise
    \/ AppendLog
    \/ WriteLedger
    \/ NextBatch
    \/ Complete
    \/ Abort

Spec == Init /\ [][Next]_vars

-----------------------------------------------------------------------------
(* The engine alone: reconcile (_update_components_history) and rebuild     *)
(* (_create_components_history), snapshot after snapshot, on a ledger that  *)
(* earlier snapshots left behind                                            *)

MaxSteps == 2

\* the ledger after the given snapshots, revision ids from id on
RECURSIVE Fold(_, _, _)
Fold(history, snapshots, id) ==
    IF snapshots = <<>> THEN history
    ELSE LET cs == _update_components_history(history, Head(snapshots), id)
         IN  Fold(IF cs.raised = "" THEN _create_components_history(cs) ELSE history,
                  Tail(snapshots), id + 1)

Rows(date, rows) == Page(date, "", TRUE, rows, <<>>)

\* the snapshots that came before: none; A joined; A joined and left; A
\* joined and left twice; A and B joined and A left; A joined and left
\* under one cik and then under another
Seeds ==
    { <<>>,
      << Rows(100, <<A0>>) >>,
      << Rows(100, <<A0>>), Rows(140, <<>>) >>,
      << Rows(100, <<A0>>), Rows(140, <<>>), Rows(180, <<A0>>), Rows(220, <<>>) >>,
      << Rows(100, <<B0, A0>>), Rows(140, <<B0>>) >>,
      << Rows(100, <<A_changed>>), Rows(140, <<>>), Rows(180, <<A0>>), Rows(220, <<>>) >> }

EngineSnapshots(last) ==
    { Page(last + delta, "", TRUE, rows, <<>>) :
          delta \in Deltas,
          rows \in { <<A0>>, <<A_sourced>>, <<A_changed>>, <<B0, A0>>, <<>>,
                     <<A_removed>> } }
    \cup { Page(last + delta, "", TRUE, rows, RemovedA(last + delta)) :
          delta \in Deltas, rows \in { <<A0>>, <<>> } }
    \cup { Page(last + 1, "", TRUE, <<A0, A0>>, <<>>),
           Page(last + 1, "", TRUE, <<NoSymbol, A0>>, <<>>),
           Page(last + 1, "", FALSE, <<>>, <<>>) }

LastDate(snapshots) == IF snapshots = <<>> THEN 100 ELSE Last(snapshots).date

InitEngine ==
    /\ BACKFILLS \in BackfillTables
    /\ pages \in Seeds
    /\ components_history = Fold(<<>>, pages, 1)
    /\ pc = "ready"
    /\ idx = 0
    /\ changeset = NoChangeset
    /\ changelog_file = <<>>
    /\ components_history_file = <<>>
    /\ revisions = <<>>
    /\ runs = 0
    /\ hist = <<>>
    /\ args = <<>>
    /\ ret = <<>>

\* lines 1032-1043: the next snapshot is diffed against the ledger
EngineReconcile ==
    /\ \/ pc \in {"ready", "rebuilt"}
       \/ pc = "diffed" /\ changeset.raised # ""
    /\ idx < MaxSteps
    /\ \E page \in EngineSnapshots(LastDate(pages)) :
          /\ pages' = Append(pages, page)
          /\ changeset' = _update_components_history(components_history, page,
                              Len(pages) + 1)
    /\ idx' = idx + 1
    /\ pc' = "diffed"
    /\ UNCHANGED << changelog_file, components_history_file, components_history,
                    revisions, BACKFILLS, runs, hist, args, ret >>

\* line 1069: the changeset is folded into the ledger
EngineRebuild ==
    /\ pc = "diffed"
    /\ changeset.raised = ""
    /\ components_history' = _create_components_history(changeset)
    /\ pc' = "rebuilt"
    /\ UNCHANGED << changelog_file, components_history_file, revisions, idx,
                    changeset, pages, BACKFILLS, runs, hist, args, ret >>

NextEngine == EngineReconcile \/ EngineRebuild

SpecEngine == InitEngine /\ [][NextEngine]_vars

-----------------------------------------------------------------------------
(* Calls of the pure functions _merge_effective_date and list_components    *)

\* no driver, no engine
NoRun ==
    /\ changelog_file = <<>>
    /\ components_history_file = <<>>
    /\ components_history = <<>>
    /\ revisions = <<>>
    /\ idx = 0
    /\ changeset = NoChangeset
    /\ pages = <<>>
    /\ BACKFILLS = <<>>
    /\ runs = 0
    /\ hist = <<>>

MergeDates ==
    { EffectiveDate(day, circa) :
          day \in {40, 70, 71, 99, 100, 101, 129, 130, 131, 160},
          circa \in BOOLEAN }

InitMerge ==
    /\ NoRun
    /\ pc = "call"
    /\ args \in [old_date : MergeDates, latest_date : MergeDates]
    /\ ret = NoDate

CallMerge ==
    /\ pc = "call"
    /\ ret' = _merge_effective_date(args.old_date, args.latest_date)
    /\ pc' = "return"
    /\ UNCHANGED << changelog_file, components_history_file, components_history,
                    revisions, idx, changeset, pages, BACKFILLS, runs, hist, args >>

SpecMerge == InitMerge /\ [][CallMerge]_vars

\* ledger records as the differ makes them: date_added sourced (exact) or the
\* stand-in of the revision that first showed the record, created_at that
\* revision's date (absent in a ledger written before the column existed)
QueryRecords ==
    { Stock(1, 1, 1, 1, date_added, date_removed, created_at) :
          date_added \in {EffectiveDate(50, FALSE), EffectiveDate(100, TRUE)},
          date_removed \in {NoDate, EffectiveDate(140, TRUE)},
          created_at \in {0, 100, 120} }

\* 1095362 is 2999-12-31, 3652059 is 9999-12-31, 0 is None
QueryDates ==
    { 0, 1, 49, 50, 99, 100, 119, 120, 139, 140, 141,
      1095362, 1095363, 1095364, 3652059 }

InitQuery ==
    /\ NoRun
    /\ pc = "call"
    /\ \E c \in QueryRecords, date \in QueryDates :
          args = [components_history |-> <<c>>, date |-> date]
    /\ ret = <<>>

CallQuery ==
    /\ pc = "call"
    /\ ret' = list_components(args.components_history, args.date)
    /\ pc' = "return"
    /\ UNCHANGED << changelog_file, components_history_file, components_history,
                    revisions, idx, changeset, pages, BACKFILLS, runs, hist, args >>

SpecQuery == InitQuery /\ [][CallQuery]_vars

\* removal tables: up to two events of A (an event table lists a symbol once
\* per removal), in the table's order
ResolveDays == {40, 90, 120, 160}

ResolveTables ==
    { <<>> }
    \cup { << [symbol |-> 1, date_removed |-> EffectiveDate(day, FALSE)] >> :
              day \in ResolveDays }
    \cup { << [symbol |-> 1, date_removed |-> EffectiveDate(day1, FALSE)],
              [symbol |-> 1, date_removed |-> EffectiveDate(day2, FALSE)] >> :
              day1 \in ResolveDays, day2 \in ResolveDays }

\* the record being removed: date_added unknown, sourced, or a stand-in
ResolveStocks ==
    { [A0 EXCEPT !.date_added = date_added] :
          date_added \in { NoDate, EffectiveDate(50, FALSE), EffectiveDate(100, TRUE),
                           EffectiveDate(150, TRUE), EffectiveDate(200, FALSE) } }

InitResolve ==
    /\ NoRun
    /\ pc = "call"
    /\ \E stock \in ResolveStocks, rows \in ResolveTables, day \in {100, 130, 140} :
          args = [ stock |-> stock,
                   removals |-> _table_to_removal_history(rows, EmptyLookup),
                   date_stand_in |-> EffectiveDate(day, TRUE) ]
    /\ ret = NoDate

CallResolve ==
    /\ pc = "call"
    /\ ret' = _get_date_removed(args.stock, args.removals, args.date_stand_in)
    /\ pc' = "return"
    /\ UNCHANGED << changelog_file, components_history_file, components_history,
                    revisions, idx, changeset, pages, BACKFILLS, runs, hist, args >>

SpecResolve == InitResolve /\ [][CallResolve]_vars

-----------------------------------------------------------------------------
(* _backfill called on its own, under every small override table *)

\* the override table's rows for A: the interval's start exact or a stand-in,
\* its end exact, a stand-in or absent, with or without a name and a cik
BackfillRows ==
    { Stock(1, cik, name, 0, date_added, date_removed, 0) :
          cik \in {0, 2}, name \in {0, 2},
          date_added \in { EffectiveDate(40, FALSE), EffectiveDate(45, TRUE),
                           EffectiveDate(90, TRUE) },
          date_removed \in { NoDate, EffectiveDate(100, FALSE), EffectiveDate(130, TRUE) } }

\* backfill.csv read at import: no row, one row or two rows for A
BackfillFiles ==
    { <<>> } \cup { << b >> : b \in BackfillRows }
             \cup { << b1, b2 >> : b1 \in BackfillRows,
                                   b2 \in { b \in BackfillRows : b.name = 2 /\ b.cik = 0 } }

\* the freshly derived record: added (no date_removed) or removed
BackfillStocks ==
    { [A0 EXCEPT !.date_added = date_added, !.date_removed = date_removed,
                 !.created_at = 100] :
          date_added \in { NoDate, EffectiveDate(50, FALSE), EffectiveDate(50, TRUE),
                           EffectiveDate(95, FALSE), EffectiveDate(100, TRUE) },
          date_removed \in { NoDate, EffectiveDate(99, FALSE), EffectiveDate(110, TRUE) } }

InitBackfill ==
    /\ changelog_file = <<>>
    /\ components_history_file = <<>>
    /\ components_history = <<>>
    /\ revisions = <<>>
    /\ idx = 0
    /\ changeset = NoChangeset
    /\ pages = <<>>
    /\ runs = 0
    /\ hist = <<>>
    /\ BACKFILLS \in BackfillFiles
    /\ pc = "call"
    /\ args \in [stock : BackfillStocks, omit_removal : BOOLEAN]
    /\ ret = A0

CallBackfill ==
    /\ pc = "call"
    /\ ret' = _backfill(args.stock, args.omit_removal)
    /\ pc' = "return"
    /\ UNCHANGED << changelog_file, components_history_file, components_history,
                    revisions, idx, changeset, pages, BACKFILLS, runs, hist, args >>

SpecBackfill == InitBackfill /\ [][CallBackfill]_vars

-----------------------------------------------------------------------------
(* The claims *)

SymbolSet(s) == {s[i].symbol : i \in 1..Len(s)}

OfSymbol(s, symbol) == SelectSeq(s, LAMBDA r : r.symbol = symbol)

Count(s, r) == Cardinality({i \in 1..Len(s) : s[i] = r})

\* the same records, each as many times
SameRecords(s, t) ==
    \A r \in SeqToSet(s) \cup SeqToSet(t) : Count(s, r) = Count(t, r)

\* the revisions whose change summary is in the audit log
SummaryRevisions(file) ==
    {file[i].revision.id : i \in {j \in 1..Len(file) : file[j].kind = "summary"}}

\* C1: once a snapshot's changeset has been rebuilt into the ledger, a second
\* reconciliation of the same snapshot (same removal events, revision and
\* override table) against the rebuilt ledger returns a changeset whose
\* added, removed, updated and inactive_updated lists are all empty.
C1_SecondReconcileIsEmpty ==
    pc = "rebuilt" =>
        LET again == _update_components_history(components_history, Last(pages),
                         Len(pages))
        IN  again.raised = "" => summary(again) = EmptyLine

\* C2: when a run that replays a finished run (same revisions, cursor read
\* from the audit log) has finished, the ledger file and the audit log are
\* what they were when it started.
C2_ReplayChangesNothing ==
    (pc = "idle" /\ hist.finished /\ hist.replay) =>
        /\ components_history_file = hist.start_file
        /\ changelog_file = hist.start_changelog

\* C3: in every state of the driver the audit log holds a change summary if
\* and only if the ledger file is the ledger rebuilt from the changeset of
\* the last summary in the log.
C3_LogAndLedgerTogether ==
    IF SummaryRevisions(changelog_file) = {}
    THEN components_history_file = <<>>
    ELSE components_history_file = hist.folded


\* the differ or the snapshot's interpretation raised UpdateError
UpdateErrorRaised == pc = "diffed" /\ IsUpdateError(changeset.raised)

\* the step of a run that goes on after an UpdateError
GoesOn ==
    LET message == ErrorLine(changeset.revision, changeset.raised)
    IN  /\ components_history' = components_history
        /\ components_history_file' = components_history_file
        /\ changelog_file' \in {changelog_file, Append(changelog_file, message)}
        /\ read_last_line(changelog_file') = message
        /\ pc' = "fetch"
        /\ idx' = idx + 1
        /\ revisions' = revisions
        /\ runs' = runs

\* C4: when a snapshot raised UpdateError, the run can go on, and unless it
\* is stopped from outside its next step leaves the ledger in memory and the
\* ledger file as they are, leaves the snapshot's error line as the last
\* line of the audit log, and moves the run to the next revision.
C4_UpdateErrorIsLocal ==
    UpdateErrorRaised =>
        /\ ENABLED (Next /\ GoesOn)
        /\ ~ ENABLED (Next /\ pc' # "idle" /\ ~GoesOn)

\* a revision raised UpdateError and the same run has diffed the next one,
\* with the ledger as it was
C4_WentOnAfterError ==
    /\ pc = "diffed"
    /\ runs = 1
    /\ changelog_file # <<>>
    /\ Last(changelog_file).kind = "ERROR"
    /\ changeset.revision.id = Last(changelog_file).revision.id + 1
    /\ components_history = read_components_history(components_history_file)

\* C5 as stated: no revision whose change summary is in the audit log is
\* diffed again.
C5_NeverDiffedAgain ==
    pc = "diffed" => changeset.revision.id \notin SummaryRevisions(changelog_file)

\* C5: a revision whose change summary is in the audit log is diffed again
\* only as the cursor (the revision of the log's last line), as the first
\* revision of a run; each run starts at the cursor, not after it.
C5_OnlyCursorDiffedAgain ==
    (pc = "diffed" /\ changeset.revision.id \in SummaryRevisions(changelog_file)) =>
        /\ changeset.revision.id = _last_processed_revision_id(changelog_file)
        /\ revisions = << changeset.revision.id >>
        /\ idx = 0

\* a second run has diffed the cursor revision again
C5_CursorDiffedAgain ==
    /\ pc = "diffed"
    /\ runs = 2
    /\ changeset.revision.id \in SummaryRevisions(changelog_file)
    /\ changeset.revision.id = _last_processed_revision_id(changelog_file)

\* the active records of a ledger
Active(history) == SelectSeq(history, LAMBDA c : ~IsDate(c.date_removed))

C7_ExactDateWins ==
    pc = "return" =>
        /\ (~args.old_date.circa /\ args.latest_date.circa) => ret = args.old_date
        /\ (args.old_date.circa /\ ~args.latest_date.circa) => ret = args.latest_date

\* an exact old date kept against an approximate latest one 60 days later
C7_ExactOldKept ==
    /\ pc = "return"
    /\ ~args.old_date.circa
    /\ args.latest_date.circa
    /\ args.latest_date.d - args.old_date.d = 60
    /\ ret = args.old_date

\* C8: with both dates approximate, _merge_effective_date returns latest
\* only if it is within 30 days of old, before or after, and returns old
\* for every latest 30 or more days away.
C8_OldKeptBeyond30Days ==
    (pc = "return" /\ args.old_date.circa /\ args.latest_date.circa) =>
        /\ ret = args.latest_date => Abs(args.latest_date.d - args.old_date.d) < 30
        /\ Abs(args.latest_date.d - args.old_date.d) >= 30 => ret = args.old_date

\* C9 as stated: list_components includes every record without date_removed
\* for every date on or after its date_added.
C9_IncludedFromDateAdded ==
    (pc = "return" /\ args.date # 0) =>
        \A i \in 1..Len(args.components_history) :
            LET c == args.components_history[i]
            IN  (~IsDate(c.date_removed) /\ c.date_added.d <= args.date)
                    => c \in SeqToSet(ret)

\* C9: list_components includes every record without date_removed for every
\* date on or after its date_added that is not before the record's
\* created_at and is before 3000-01-01 (_DATE_MAX).
C9_IncludedUpToDateMax ==
    (pc = "return" /\ args.date # 0) =>
        \A i \in 1..Len(args.components_history) :
            LET c == args.components_history[i]
            IN  (/\ ~IsDate(c.date_removed)
                 /\ c.date_added.d <= args.date
                 /\ c.created_at <= args.date
                 /\ args.date < _DATE_MAX)
                    => c \in SeqToSet(ret)

\* a record first seen after its sourced date_added, listed on 2999-12-31
C9_ListedFarAhead ==
    /\ pc = "return"
    /\ args.date = _DATE_MAX - 1
    /\ args.components_history[1].created_at > args.components_history[1].date_added.d
    /\ ~IsDate(args.components_history[1].date_removed)
    /\ ret = args.components_history

\* days from an inactive record's removal to an addition
Gap(existing, added) == added.date_added.d - existing.date_removed.d

\* the inactive record and the addition as one record
Folded(existing, added) ==
    [_merge_stocks(existing, added) EXCEPT !.date_removed = NoDate]

\* the inactive records of a changeset
Inactive(cs) == cs.inactive \o cs.inactive_updated

\* C10 as stated: an added record is folded into an inactive record of its
\* symbol exactly when the gap is under 30 days, and then the ledger holds
\* the folded record and no other active record of the symbol; with a gap
\* of 30 days or more the ledger holds the inactive record unchanged and the
\* addition as a record of its own.
C10_FoldedWheneverUnder30 ==
    pc = "rebuilt" =>
        \A i \in 1..Len(changeset.added), j \in 1..Len(Inactive(changeset)) :
            LET added == changeset.added[i]
                existing == Inactive(changeset)[j]
            IN  existing.symbol = added.symbol =>
                    IF Gap(existing, added) < 30
                    THEN /\ Folded(existing, added) \in SeqToSet(components_history)
                         /\ Len(Active(OfSymbol(components_history, added.symbol))) = 1
                    ELSE /\ existing \in SeqToSet(components_history)
                         /\ added \in SeqToSet(components_history)

\* C10: an added record is folded into at most one inactive record of its
\* symbol: the first, in the reverse of the ledger's order, whose
\* date_removed is less than 30 days before the addition's date_added (or
\* after it).  The ledger then holds the folded record in that record's
\* place, the symbol's other inactive records unchanged, and no record of
\* its own for the addition.  When no inactive record is that near, all are
\* unchanged and the addition is a record of its own.
C10_FoldedIntoFirstUnder30 ==
    pc = "rebuilt" =>
        \A i \in 1..Len(changeset.added) :
            LET added == changeset.added[i]
                prev == OfSymbol(Reverse(sort(Inactive(changeset))), added.symbol)
                near == {j \in 1..Len(prev) : Gap(prev[j], added) < 30}
                first == CHOOSE j \in near : \A k \in near : j <= k
                expected ==
                    IF near = {} THEN Append(prev, added)
                    ELSE [j \in 1..Len(prev) |->
                             IF j = first THEN Folded(prev[j], added) ELSE prev[j]]
            IN  SameRecords(OfSymbol(components_history, added.symbol), expected)

\* an addition folded into one of two inactive records that are both near
C10_FoldedOnce ==
    /\ pc = "rebuilt"
    /\ \E i \in 1..Len(changeset.added) :
          LET added == changeset.added[i]
              prev == OfSymbol(Inactive(changeset), added.symbol)
          IN  /\ Len(prev) = 2
              /\ \A j \in 1..2 : Gap(prev[j], added) < 30
              /\ \E j \in 1..2 : Folded(prev[j], added) \in SeqToSet(components_history)
              /\ \E j \in 1..2 : prev[j] \in SeqToSet(components_history)


\* days a removed record was a member
Duration(s) == s.date_removed.d - s.date_added.d

\* C11: a removed record is left out of the rebuilt ledger if and only if
\* its membership lasted 14 days or less and its created_at is less than 2
\* days before the snapshot's date; every other removed record (a long
\* stint, one first seen long ago, one without created_at) is kept.
C11_DroppedIffShortAndRecent ==
    pc = "rebuilt" =>
        \A i \in 1..Len(changeset.removed) :
            LET s == changeset.removed[i]
            IN  (s \notin SeqToSet(components_history))
                    <=> /\ Duration(s) <= 14
                        /\ s.created_at # 0
                        /\ changeset.revision.date - s.created_at < 2


\* two records of one symbol under one cik
SameKey(a, b) == a.symbol = b.symbol /\ a.cik = b.cik

\* C12 as stated: among the ledger's records of one symbol and cik the
\* active record comes before every removed record and a later removal
\* comes before an earlier one.
C12_ActiveBeforeRemoved ==
    \A i, j \in 1..Len(components_history) :
        LET a == components_history[i]
            b == components_history[j]
        IN  (pc = "rebuilt" /\ i < j /\ SameKey(a, b)) =>
                /\ ~IsDate(b.date_removed) => ~IsDate(a.date_removed)
                /\ (IsDate(a.date_removed) /\ IsDate(b.date_removed))
                       => a.date_removed.d >= b.date_removed.d

\* C12: the ledger is sorted by symbol, then cik, then date_removed
\* ascending with an absent date_removed as the maximum: among the records
\* of one symbol and cik every removed record comes before the active
\* record and an earlier removal comes before a later one.
C12_RemovedBeforeActive ==
    \A i, j \in 1..Len(components_history) :
        LET a == components_history[i]
            b == components_history[j]
        IN  i < j =>
                /\ a.symbol <= b.symbol
                /\ a.symbol = b.symbol => a.cik <= b.cik
                /\ SameKey(a, b) =>
                       /\ ~IsDate(a.date_removed) => ~IsDate(b.date_removed)
                       /\ (IsDate(a.date_removed) /\ IsDate(b.date_removed))
                              => a.date_removed.d <= b.date_removed.d

\* a rebuilt ledger with two removed stints of a symbol, removed on
\* different days, and its active record after them
C12_TwoRemovedThenActive ==
    /\ pc = "rebuilt"
    /\ \E i, j, k \in 1..Len(components_history) :
          LET a == components_history[i]
              b == components_history[j]
              c == components_history[k]
          IN  /\ i < j /\ j < k
              /\ SameKey(a, b) /\ SameKey(b, c)
              /\ IsDate(a.date_removed) /\ IsDate(b.date_removed)
              /\ a.date_removed.d < b.date_removed.d
              /\ ~IsDate(c.date_removed)


\* the removal date the Removal Resolver gives the i-th record of the ledger
\* under the removal events of the snapshot in hand
Recomputed(i) ==
    _get_date_removed(components_history[i],
        _table_to_removal_history(Last(pages).removals, EmptyLookup),
        components_history[i].date_removed)

\* the i-th record is the last record of its symbol in the ledger's order
\* (the first one met going through the ledger in reverse)
LatestOfSymbol(i) ==
    \A j \in (i + 1)..Len(components_history) :
        components_history[j].symbol # components_history[i].symbol

InactiveAt == {i \in 1..Len(components_history) :
                  IsDate(components_history[i].date_removed)}

\* C13 as stated: every inactive record of the ledger whose recomputed
\* removal date differs from the stored one is in inactive_updated with the
\* new date, and every other one is in inactive.
C13_EveryInactiveReevaluated ==
    (pc = "diffed" /\ changeset.raised = "") =>
        \A i \in InactiveAt :
            LET existing == components_history[i]
            IN  IF Recomputed(i) # existing.date_removed
                THEN [existing EXCEPT !.date_removed = Recomputed(i)]
                         \in SeqToSet(changeset.inactive_updated)
                ELSE existing \in SeqToSet(changeset.inactive)

\* C13: of a symbol's records only the last one in the ledger's order is
\* re-evaluated, and only if it is inactive: it is in inactive_updated with
\* the recomputed date when that differs from the stored one.  Every other
\* inactive record (an older stint, a stint of a symbol that has an active
\* record) is in inactive as it is.
C13_LatestInactiveReevaluated ==
    (pc = "diffed" /\ changeset.raised = "") =>
        /\ Len(changeset.inactive) + Len(changeset.inactive_updated)
               = Cardinality(InactiveAt)
        /\ \A i \in InactiveAt :
               LET existing == components_history[i]
               IN  IF LatestOfSymbol(i) /\ Recomputed(i) # existing.date_removed
                   THEN [existing EXCEPT !.date_removed = Recomputed(i)]
                            \in SeqToSet(changeset.inactive_updated)
                   ELSE existing \in SeqToSet(changeset.inactive)

\* a symbol's latest stint re-dated by a removal event while an older stint,
\* which the same event would re-date too, is left as it is
C13_LatestRedatedOlderKept ==
    /\ pc = "diffed"
    /\ changeset.raised = ""
    /\ changeset.inactive_updated # <<>>
    /\ \E i \in InactiveAt :
          /\ ~LatestOfSymbol(i)
          /\ Recomputed(i) # components_history[i].date_removed
          /\ components_history[i] \in SeqToSet(changeset.inactive)


\* the dates of the symbol's removal events that are closest to date_stand_in
ClosestEvents ==
    LET events == {h.date_removed : h \in SeqToSet(Get(args.removals, args.stock.symbol))}
    IN  {c \in events : \A e \in events :
            Abs(c.d - args.date_stand_in.d) <= Abs(e.d - args.date_stand_in.d)}

\* steps 3 and 4 of the rule
Fallback ==
    IF IsDate(args.stock.date_added) /\ args.stock.date_added.d > args.date_stand_in.d
    THEN EffectiveDate(args.stock.date_added.d, TRUE)
    ELSE args.date_stand_in

\* C14: _get_date_removed returns the symbol's removal event closest to
\* date_stand_in if that event is not before the record's date_added (an
\* absent date_added is before everything), else date_added marked
\* approximate if date_added is after date_stand_in, else date_stand_in.
C14_ClosestEventUnlessBeforeAdded ==
    pc = "return" =>
        IF ClosestEvents = {} THEN ret = Fallback
        ELSE \E c \in ClosestEvents :
                 IF ~IsDate(args.stock.date_added) \/ c.d >= args.stock.date_added.d
                 THEN ret = c
                 ELSE ret = Fallback

\* the positions of the override entries whose interval holds stock.date_added
Matching ==
    { i \in 1..Len(BACKFILLS) :
          LET b == BACKFILLS[i]
          IN  /\ b.symbol = args.stock.symbol
              /\ IsDate(b.date_added) /\ IsDate(b.date_removed)
              /\ IsDate(args.stock.date_added)
              /\ b.date_added.d <= args.stock.date_added.d
              /\ args.stock.date_added.d < b.date_removed.d }

\* the first of them
FirstMatching == BACKFILLS[CHOOSE i \in Matching : \A j \in Matching : i <= j]

\* which of two dates the merge policy of section 4.2 keeps: the override's
\* when it is exact, or when both are stand-ins and the override's is less
\* than 30 days after the record's; the record's otherwise
DateKept(of_record, of_override) ==
    IF ~IsDate(of_override) THEN of_record
    ELSE IF ~IsDate(of_record) THEN of_override
    ELSE IF ~of_override.circa THEN of_override
    ELSE IF of_record.circa /\ of_override.d - of_record.d < 30 THEN of_override
    ELSE of_record

\* C15 (as stated): the result of _backfill has the value of the first
\* matching override entry in every field that entry has a value for (name,
\* sector, cik, date_added, and date_removed unless removal is suppressed),
\* also when the override's date is approximate and the record's is exact.
C15_OverrideWinsEveryField ==
    (pc = "return" /\ Matching # {}) =>
        LET b == FirstMatching
        IN  /\ b.name # 0 => ret.name = b.name
            /\ b.sector # 0 => ret.sector = b.sector
            /\ b.cik # 0 => ret.cik = b.cik
            /\ ret.date_added = b.date_added
            /\ IF args.omit_removal THEN ret.date_removed = NoDate
               ELSE ret.date_removed = b.date_removed

\* C15 (amended): the result of _backfill has the value of the first matching
\* override entry in name, sector and cik where the entry has one and the
\* record's value elsewhere; each of its dates is the one the merge policy
\* keeps, so an exact date of the record stands against an approximate date
\* of the override; date_removed is absent when removal is suppressed.  With
\* no matching entry the record is returned as it is.
C15_OverrideWinsUnderMergePolicy ==
    pc = "return" =>
        IF Matching = {} THEN ret = args.stock
        ELSE LET b == FirstMatching
             IN  /\ ret.symbol = args.stock.symbol
                 /\ ret.name = OrStr(b.name, args.stock.name)
                 /\ ret.sector = OrStr(b.sector, args.stock.sector)
                 /\ ret.cik = OrStr(b.cik, args.stock.cik)
                 /\ ret.date_added = DateKept(args.stock.date_added, b.date_added)
                 /\ ret.date_removed =
                        IF args.omit_removal THEN NoDate
                        ELSE DateKept(args.stock.date_removed, b.date_removed)

\* an override with a name and an approximate start merged into a record
\* with an exact date_added: the name is the override's, the date the record's
C15_ExactRecordDateStands ==
    /\ pc = "return"
    /\ Matching # {}
    /\ FirstMatching.name # 0
    /\ FirstMatching.date_added.circa
    /\ ~args.stock.date_added.circa
    /\ FirstMatching.date_added.d # args.stock.date_added.d
    /\ ret.name = FirstMatching.name
    /\ ret.date_added = args.stock.date_added

\* C16: every record that _diff_lists places in added starts active: its
\* date_removed is absent, whether or not an override entry matched and
\* whatever date_removed the snapshot row or the override carried; its
\* date_added is present and its created_at is the snapshot's calendar date.
C16_AddedStartsActive ==
    (pc = "diffed" /\ changeset.raised = "") =>
        \A i \in 1..Len(changeset.added) :
            LET s == changeset.added[i]
            IN  /\ ~IsDate(s.date_removed)
                /\ IsDate(s.date_added)
                /\ s.created_at = changeset.revision.date

\* the positions in prev of the records with the most recent date_removed
MostRecent(prev) ==
    {j \in 1..Len(prev) : \A k \in 1..Len(prev) :
        prev[k].date_removed.d <= prev[j].date_removed.d}

\* C17: the rebuild goes through the inactive records in reverse
\* chronological order of date_removed, so an addition is tested first
\* against, and folded only into, the inactive record of its symbol with
\* the most recent date_removed (whatever the records' cik values), and
\* into at most one: the ledger holds that record folded and the symbol's
\* other inactive records unchanged, or, when that record is 30 days or
\* more before the addition, all of them unchanged and the addition.
C17_FoldedIntoMostRecent ==
    pc = "rebuilt" =>
        \A i \in 1..Len(changeset.added) :
            LET added == changeset.added[i]
                prev == OfSymbol(Inactive(changeset), added.symbol)
                expected(latest) ==
                    IF Gap(prev[latest], added) >= 30 THEN Append(prev, added)
                    ELSE [j \in 1..Len(prev) |->
                             IF j = latest THEN Folded(prev[j], added) ELSE prev[j]]
            IN  prev # <<>> =>
                    \E latest \in MostRecent(prev) :
                        SameRecords(OfSymbol(components_history, added.symbol),
                                    expected(latest))

\* some list of the changeset is non-empty
AnyListNonEmpty(cs) ==
    \/ cs.added # <<>> \/ cs.removed # <<>> \/ cs.updated # <<>>
    \/ cs.unchanged # <<>> \/ cs.inactive # <<>> \/ cs.inactive_updated # <<>>

\* the changeset has an addition, a removal or an update
AnyChange(cs) ==
    \/ cs.added # <<>> \/ cs.removed # <<>> \/ cs.updated # <<>>
    \/ cs.inactive_updated # <<>>

\* what the driver does with the changeset of a snapshot processed without
\* error when it writes exactly if write_it: the rebuilt ledger is taken,
\* one summary line is appended to the audit log and the ledger is
\* persisted; or the files, and the ledger in hand, are left as they are.
\* A step to "idle" out of the middle of a run is the run being stopped.
DriverWrites(write_it) ==
    /\ (pc = "diffed" /\ changeset.raised = "" /\ pc' # "idle") =>
           /\ UNCHANGED << changelog_file, components_history_file >>
           /\ IF write_it
              THEN /\ pc' = "append"
                   /\ components_history' = _create_components_history(changeset)
              ELSE /\ pc' = "fetch"
                   /\ components_history' = components_history
    /\ (pc = "append" /\ pc' # "idle") =>
           /\ pc' = "write"
           /\ changelog_file' = Append(changelog_file, summary(changeset))
           /\ summary(changeset).kind = "summary"
           /\ UNCHANGED << components_history_file, components_history >>
    /\ (pc = "write" /\ pc' # "idle") =>
           /\ pc' = "fetch"
           /\ components_history_file' = _create_components_history(changeset)
           /\ UNCHANGED << changelog_file, components_history >>

\* C18 (as stated): for each snapshot processed without error the driver
\* persists the rebuilt ledger and appends exactly one summary line to the
\* audit log if any list of the changeset is non-empty, and otherwise
\* writes neither the ledger nor the log.
C18_WritesIffAnyListNonEmpty == [][DriverWrites(AnyListNonEmpty(changeset))]_vars

\* C18 (amended): for each snapshot processed without error the driver
\* persists the rebuilt ledger and appends exactly one summary line to the
\* audit log if the changeset has an addition, a removal or an update
\* (added, removed, updated or inactive_updated non-empty), and otherwise,
\* also when unchanged or inactive are non-empty, writes neither.
C18_WritesIffAnyChange == [][DriverWrites(AnyChange(changeset))]_vars

\* a snapshot processed without error whose changeset holds unchanged
\* records only: the run has moved on and both files are as the run found them
C18_UnchangedOnlyWritesNothing ==
    /\ pc = "fetch"
    /\ idx = 1
    /\ changeset.raised = ""
    /\ changeset.unchanged # <<>>
    /\ ~AnyChange(changeset)
    /\ Len(revisions) = 1
    /\ changelog_file = hist.start_changelog
    /\ components_history_file = hist.start_file
    /\ changelog_file # <<>>

\* the interval [date_added, date_removed) of a record, an absent date_added
\* being the first day and an absent date_removed the last
From(s) == IF IsDate(s.date_added) THEN s.date_added.d ELSE _DATE_MIN

Until(s) == IF IsDate(s.date_removed) THEN s.date_removed.d ELSE _DATE_MAX

\* two records whose intervals share a day
Overlap(a, b) ==
    /\ From(a) < Until(b) /\ From(b) < Until(a)
    /\ From(a) < Until(a) /\ From(b) < Until(b)

\* the records of each symbol cover pairwise disjoint intervals
Disjoint(history) ==
    \A i, j \in 1..Len(history) :
        (i # j /\ history[i].symbol = history[j].symbol)
            => ~Overlap(history[i], history[j])

\* the ledger the steps started from
StartLedger == Fold(<<>>, SubSeq(pages, 1, Len(pages) - idx), 1)

\* C19: if the records of each symbol covered pairwise disjoint intervals
\* [date_added, date_removed) in the ledger the steps started from, they
\* still do after any sequence of reconcile and rebuild steps (an absent
\* date_removed counts as open-ended).
C19_IntervalsStayDisjoint ==
    Disjoint(StartLedger) => Disjoint(components_history)

\* at most one active record per symbol
UniqueActive(history) ==
    \A i, j \in 1..Len(history) :
        (i # j /\ history[i].symbol = history[j].symbol)
            => (IsDate(history[i].date_removed) \/ IsDate(history[j].date_removed))

\* C20: if the ledger the steps started from had at most one active record
\* per symbol, then after any sequence of successful reconcile and rebuild
\* steps the ledger has at most one active record per symbol, and
\* _diff_lists does not raise the duplicate-symbol UpdateError for the old
\* side.
C20_OneActivePerSymbol ==
    \/ /\ UniqueActive(components_history)
       /\ changeset.raised # "Duplicate symbol(s) in old stocks list"
    \/ ~UniqueActive(StartLedger)

\* the last rebuild left a symbol with an active record beside an inactive
\* one, the active record being a re-entry folded into one of the symbol's
\* two inactive records, or an updated record
C20_FoldedOrUpdatedBesideInactive ==
    /\ pc = "rebuilt"
    /\ idx = MaxSteps
    /\ \E i \in 1..Len(components_history) :
          LET s == components_history[i]
          IN  /\ ~IsDate(s.date_removed)
              /\ Len(OfSymbol(components_history, s.symbol)) >= 2
              /\ \/ \E j \in 1..Len(changeset.added), k \in 1..Len(Inactive(changeset)) :
                       /\ changeset.added[j].symbol = s.symbol
                       /\ s = Folded(Inactive(changeset)[k], changeset.added[j])
                       /\ Len(OfSymbol(Inactive(changeset), s.symbol)) >= 2
                 \/ s \in SeqToSet(changeset.updated)

====
